---- MODULE Spec2Model ----
(***************************************************************************)
(* Model of the Pubmed XML extractor (src/pubmed/pubmedio.py).             *)
(*                                                                         *)
(* A Python string is a sequence of one-character strings; a DOM node is a *)
(* record [kind, name, data, attrs, kids]; a dict used as an ordered set   *)
(* is the sequence of its keys in insertion order.  The state machine is   *)
(* the generator PubmedIO.parse over a parsed document.                    *)
(***************************************************************************)
EXTENDS Integers, Sequences, FiniteSets, TLC

VARIABLES dom, pc, pos, out

vars == <<dom, pc, pos, out>>

(***************************************************************************)
(* Strings                                                                 *)
(***************************************************************************)
Range(s) == {s[i] : i \in 1..Len(s)}

\* \w of Python's re on a str pattern: the letters, the digits and "_" of
\* Unicode, here those of U+0001..U+00FF (the characters a string can hold)
WordChars ==
    {"a","b","c","d","e","f","g","h","i","j","k","l","m","n","o","p","q","r","s","t",
     "u","v","w","x","y","z","A","B","C","D","E","F","G","H","I","J","K","L","M","N",
     "O","P","Q","R","S","T","U","V","W","X","Y","Z","0","1","2","3","4","5","6","7",
     "8","9","_",
     "ª","²","³","µ","¹","º","¼","½","¾","À","Á","Â","Ã","Ä","Å","Æ","Ç","È","É","Ê",
     "Ë","Ì","Í","Î","Ï","Ð","Ñ","Ò","Ó","Ô","Õ","Ö","Ø","Ù","Ú","Û","Ü","Ý","Þ","ß",
     "à","á","â","ã","ä","å","æ","ç","è","é","ê","ë","ì","í","î","ï","ð","ñ","ò","ó",
     "ô","õ","ö","ø","ù","ú","û","ü","ý","þ","ÿ"}

IsWord(c) == c \in WordChars

\* \s of Python's re on a str pattern, and the characters str.strip()
\* removes: U+0009..U+000D, U+001C..U+0020, U+0085 and U+00A0
IsSpace(c) ==
    c \in {"\t", "\n", "", "\f", "\r", "", "", "", "", " ", "", " "}

\* the class [\w\d\.\-\_] of the email pattern
IsMailChar(c) == IsWord(c) \/ c \in {".", "-"}

\* the class [\.\s] trimmed from emails and affiliations
IsDotSpace(c) == c = "." \/ IsSpace(c)

IsDot(c) == c = "."

IsLetterS(c) == c = "s"

\* first index j >= i with j past the end of s or s[j] outside the class P
RunEnd(s, i, P(_)) ==
    CHOOSE j \in i..(Len(s) + 1) :
        /\ (j = Len(s) + 1 \/ ~P(s[j]))
        /\ \A k \in i..(j - 1) : P(s[k])

\* last index j <= i with j before the start of s or s[j] outside the class P
RunStart(s, i, P(_)) ==
    CHOOSE j \in 0..i :
        /\ (j = 0 \/ ~P(s[j]))
        /\ \A k \in (j + 1)..i : P(s[k])

\* the literal lit occurs in s at index i
LitAt(s, i, lit) ==
    /\ i + Len(lit) - 1 <= Len(s)
    /\ \A k \in 1..Len(lit) : s[i + k - 1] = lit[k]

\* str.strip()
Strip(s) == SubSeq(s, RunEnd(s, 1, IsSpace), RunStart(s, Len(s), IsSpace))

\* re.sub(r'^[\.\s]+', '', s)
LStripDotSpace(s) == SubSeq(s, RunEnd(s, 1, IsDotSpace), Len(s))

\* re.sub(r'[\.\s]+$', '', s)
RStripDotSpace(s) == SubSeq(s, 1, RunStart(s, Len(s), IsDotSpace))

\* connector.join(strs)
RECURSIVE Join(_, _)
Join(connector, strs) ==
    IF Len(strs) = 0 THEN <<>>
    ELSE IF Len(strs) = 1 THEN strs[1]
    ELSE strs[1] \o connector \o Join(connector, Tail(strs))

\* the piece of s from index i up to the separator at index j, then the rest
Pieces(s, i, j, rest) ==
    IF j > Len(s) THEN <<SubSeq(s, i, Len(s))>> ELSE <<SubSeq(s, i, j - 1)>> \o rest[j + 1]

\* re.split on a one-character class: the pieces between the separators
SplitOn(s, IsSep(_)) ==
    LET f[i \in 1..(Len(s) + 1)] ==
            Pieces(s, i, RunEnd(s, i, LAMBDA c : ~IsSep(c)), f)
    IN  f[1]

\* the least element of a non-empty set of indices
Least(S) == CHOOSE m \in S : \A o \in S : m <= o

\* the span of the match at i, then the spans after its end e
SpanAt(i, e, rest) == <<<<i, e>>>> \o rest[e]

\* the spans of the matches that start at or after an index, starts being
\* the indices where the pattern matches
SpansFrom(s, starts, MatchEnd(_, _)) ==
    LET f[from \in 1..(Len(s) + 1)] ==
            IF \A i \in starts : i < from THEN <<>>
            ELSE SpanAt(Least({i \in starts : i >= from}),
                        MatchEnd(s, Least({i \in starts : i >= from})), f)
    IN  f[1]

\* Leftmost non-overlapping matches of a pattern, as re.findall and re.sub
\* scan them: MatchEnd(s, i) is the index after the match that starts at i,
\* or 0 when the pattern does not match at i.  Result: <<start, end>> spans.
Spans(s, MatchEnd(_, _)) ==
    SpansFrom(s, {i \in 1..Len(s) : MatchEnd(s, i) > i}, MatchEnd)

\* re.sub(pattern, '', s): s without the matched spans
RemoveSpans(s, spans) ==
    LET f[n \in 0..Len(spans)] ==
            IF n = 0 THEN <<>>
            ELSE f[n - 1] \o
                 SubSeq(s, IF n = 1 THEN 1 ELSE spans[n - 1][2], spans[n][1] - 1)
    IN  f[Len(spans)]
        \o SubSeq(s, IF Len(spans) = 0 THEN 1 ELSE spans[Len(spans)][2], Len(s))

\* t occurs in s as a contiguous substring
Contains(s, t) == \E i \in 1..(Len(s) + 1) : LitAt(s, i, t)

\* a list in place of the dict: every value is appended, repeated or not
DictSetAppend(d, k) == Append(d, k)

\* dict[k] = 1 on a dict used as an insertion-ordered set
DictSet(d, k) == IF k \in Range(d) THEN d ELSE Append(d, k)

\* the concatenation of the sequences of ss
RECURSIVE Flatten(_)
Flatten(ss) == IF Len(ss) = 0 THEN <<>> ELSE Head(ss) \o Flatten(Tail(ss))

\* dict[k] = 1 for every k of ks, in order
RECURSIVE DictSetAll(_, _)
DictSetAll(d, ks) ==
    IF Len(ks) = 0 THEN d ELSE DictSetAll(DictSet(d, Head(ks)), Tail(ks))

(***************************************************************************)
(* DOM nodes (xml.dom.minidom)                                             *)
(***************************************************************************)
None == [kind |-> "none", name |-> "", data |-> <<>>, attrs |-> <<>>, kids |-> <<>>]

Text(data) ==
    [kind |-> "text", name |-> "#text", data |-> data, attrs |-> <<>>, kids |-> <<>>]

Elem(tag, attrs, kids) ==
    [kind |-> "elem", name |-> tag, data |-> <<>>, attrs |-> attrs, kids |-> kids]

\* a comment: no attributes, no children, neither text nor element
Comment(data) ==
    [kind |-> "comment", name |-> "#comment", data |-> data, attrs |-> <<>>, kids |-> <<>>]

\* a document type declaration <!DOCTYPE name ...>: nodeName is the declared
\* name; no attributes, no children, neither text nor element
DocumentType(name) ==
    [kind |-> "doctype", name |-> name, data |-> <<>>, attrs |-> <<>>, kids |-> <<>>]

\* the document minidom.parse returns: its children are all the top-level
\* nodes of the file in order, the comments and the document type declaration
\* around the root element as well as the root element
Document(kids) ==
    [kind |-> "doc", name |-> "#document", data |-> <<>>, attrs |-> <<>>,
     kids |-> kids]

Attr(k, v) == [k |-> k, v |-> v]

\* truth value of a node reference: None is false, every Node is true
Truthy(node) == node.kind # "none"

\* the child c itself when it is an element, then its element descendants
RECURSIVE Descendants(_)
Subtree(c) == (IF c.kind = "elem" THEN <<c>> ELSE <<>>) \o Descendants(c)

\* all element descendants of node, in document (pre-)order
Descendants(node) ==
    LET f[n \in 0..Len(node.kids)] ==
            IF n = 0 THEN <<>> ELSE f[n - 1] \o Subtree(node.kids[n])
    IN  f[Len(node.kids)]

\* node.getElementsByTagName(tag): the tag '*' matches every element.  Only
\* documents and elements have the method: on any other receiver the call
\* raises AttributeError and the operator has no value
getElementsByTagName(node, tag) ==
    IF node.kind \in {"doc", "elem"}
    THEN SelectSeq(Descendants(node), LAMBDA e : tag = "*" \/ e.name = tag)
    ELSE CHOOSE nodes \in {} : TRUE

(***************************************************************************)
(* Tree navigator                                                          *)
(***************************************************************************)
\* nodes[index] if nodes else None: a negative index counts from the end; an
\* index outside -len(nodes)..len(nodes)-1 raises IndexError and the
\* operator has no value
NodeAt(nodes, index) ==
    IF Len(nodes) = 0 THEN None
    ELSE nodes[IF index < 0 THEN Len(nodes) + index + 1 ELSE index + 1]

\* one segment p of the path, from the node reached so far
PathStep(node, p, index) ==
    IF ~Truthy(node) THEN None ELSE NodeAt(getElementsByTagName(node, p), index)

\* a false pnode is kept: every segment then finds nothing
gotonodeStrict(path, pnode, index) ==
    LET f[n \in 0..Len(path)] ==
            IF n = 0 THEN pnode ELSE PathStep(f[n - 1], path[n], index)
    IN  f[Len(path)]

\* PubmedIO.gotonode(path, pnode, index): path is the sequence of tags of
\* 'tag|subtag|...'; a false pnode is replaced by the document
gotonode(path, pnode, index) ==
    LET f[n \in 0..Len(path)] ==
            IF n = 0 THEN (IF ~Truthy(pnode) THEN dom ELSE pnode)
            ELSE PathStep(f[n - 1], path[n], index)
    IN  f[Len(path)]

\* the stripped data of the last of the text nodes, '' when there is none
LastText(texts) == IF Len(texts) = 0 THEN <<>> ELSE Strip(texts[Len(texts)].data)

\* the content childvalue computes for one child c: the stripped data of the
\* last text child of an element, '' for anything else
ChildContent(c) ==
    IF c.kind = "elem" THEN LastText(SelectSeq(c.kids, LAMBDA n : n.kind = "text"))
    ELSE <<>>

\* if len(content)<=0: continue; rstrs.append(content)
AppendContent(rstrs, content) ==
    IF Len(content) <= 0 THEN rstrs ELSE Append(rstrs, content)

\* PubmedIO.childvalue(node, keys, connector) with ifkey=False, as every
\* call site leaves it; keys is the set of the names in the list
childvalue(node, keys, connector) ==
    IF ~Truthy(node) THEN <<>>
    ELSE LET f[n \in 0..Len(node.kids)] ==
                 IF n = 0 THEN <<>>
                 ELSE IF keys # {} /\ node.kids[n].name \notin keys THEN f[n - 1]
                 ELSE AppendContent(f[n - 1], ChildContent(node.kids[n]))
         IN  Join(connector, f[Len(node.kids)])

\* PubmedIO.attrvalue(node, keys, connector) with ifkey=False
attrvalue(node, keys, connector) ==
    IF ~Truthy(node) THEN <<>>
    ELSE LET f[n \in 0..Len(node.attrs)] ==
                 IF n = 0 THEN <<>>
                 ELSE IF keys # {} /\ node.attrs[n].k \notin keys THEN f[n - 1]
                 ELSE Append(f[n - 1], node.attrs[n].v)
         IN  Join(connector, f[Len(node.attrs)])

\* a text child: content = child.data.strip(), appended unless empty
GettextText(st, content) ==
    [st EXCEPT !.content = content, !.bound = TRUE, !.rstrs = AppendContent(@, content)]

\* an element child: content = self.childvalue(node, keys=[child.tagName]), appended
GettextElement(st, content) ==
    [st EXCEPT !.content = content, !.bound = TRUE, !.rstrs = Append(@, content)]

\* a child that is neither text nor element assigns nothing: rstrs.append(content)
\* appends the content of the previous child, and raises UnboundLocalError
\* when no child has assigned content yet
GettextOther(st) ==
    IF st.bound THEN [st EXCEPT !.rstrs = Append(@, st.content)]
    ELSE [st EXCEPT !.raised = TRUE]

\* one iteration of the loop of gettext
GettextStep(st, node, child) ==
    IF st.raised THEN st
    ELSE IF child.kind = "text" THEN GettextText(st, Strip(child.data))
    ELSE IF child.kind = "elem"
    THEN GettextElement(st, childvalue(node, {child.name}, <<"-">>))
    ELSE GettextOther(st)

\* the loop of gettext over the child nodes of node
GettextLoop(node) ==
    LET f[n \in 0..Len(node.kids)] ==
            IF n = 0 THEN [rstrs |-> <<>>, content |-> <<>>, bound |-> FALSE, raised |-> FALSE]
            ELSE GettextStep(f[n - 1], node, node.kids[n])
    IN  f[Len(node.kids)]

\* PubmedIO.gettext(node, connector) raises UnboundLocalError
gettextRaises(node) == Truthy(node) /\ GettextLoop(node).raised

\* PubmedIO.gettext(node, connector), when it returns: an element child
\* contributes childvalue(node, keys=[child.tagName]) with the default connector "-"
gettext(node, connector) ==
    IF ~Truthy(node) THEN <<>> ELSE Join(connector, GettextLoop(node).rstrs)

(***************************************************************************)
(* Sub-field extraction: emails, identifiers, affiliations                 *)
(***************************************************************************)
\* the end k of the domain run of an email whose "@" is at j
EmailDomain(j, k) == IF k > j + 1 THEN k ELSE 0

\* the email whose local run from i ends at j
EmailLocal(s, i, j) ==
    IF j > i /\ j <= Len(s) /\ s[j] = "@"
    THEN EmailDomain(j, RunEnd(s, j + 1, IsMailChar))
    ELSE 0

\* [\w\d\.\-\_]+\@[\w\d\.\-\_]+ at index i
EmailEnd(s, i) == EmailLocal(s, i, RunEnd(s, i, IsMailChar))

ElectronicAddress ==
    <<"E","l","e","c","t","r","o","n","i","c"," ","a","d","d","r","e","s","s",":">>

\* \s+ from index j to index k
SpacesEnd(j, k) == IF k > j THEN k ELSE 0

\* Electronic address:\s+ at index i
ElectronicEnd(s, i) ==
    IF LitAt(s, i, ElectronicAddress)
    THEN SpacesEnd(i + Len(ElectronicAddress),
                   RunEnd(s, i + Len(ElectronicAddress), IsSpace))
    ELSE 0

\* [\w]{4}\-[\w]{4}\-[\w]{4}\-[\w]{4} at index i
OrcidEnd(s, i) ==
    IF /\ i + 18 <= Len(s)
       /\ \A k \in 0..18 : IF k \in {4, 9, 14} THEN s[i + k] = "-" ELSE IsWord(s[i + k])
    THEN i + 19
    ELSE 0

OrcidTag == <<"O","R","C","I","D",":">>

OrcidHost == <<":","/","/","o","r","c","i","d",".","o","r","g","/">>

\* the index j itself when the four groups start at j, else 0
OrcidAt(s, j) == IF OrcidEnd(s, j) > 0 THEN j ELSE 0

\* index of the captured group of ORCID:\s*(....-....-....-....) at i, or 0
BareGroup(s, i) ==
    IF LitAt(s, i, OrcidTag) THEN OrcidAt(s, RunEnd(s, i + Len(OrcidTag), IsSpace)) ELSE 0

\* the end of a match whose captured group starts at g
GroupEnd(g) == IF g > 0 THEN g + 19 ELSE 0

\* ORCID:\s*[\w]{4}\-[\w]{4}\-[\w]{4}\-[\w]{4} at index i
BareEnd(s, i) == GroupEnd(BareGroup(s, i))

\* \.* after a match that ends at e
DotsEnd(s, e) == IF e > 0 THEN RunEnd(s, e, IsDot) ELSE 0

\* ORCID:\s*[\w]{4}\-[\w]{4}\-[\w]{4}\-[\w]{4}\.* at index i
BareDotsEnd(s, i) == DotsEnd(s, BareEnd(s, i))

\* :\/\/orcid\.org\/(....-....-....-....) at index k
UrlHost(s, k) == IF LitAt(s, k, OrcidHost) THEN OrcidAt(s, k + Len(OrcidHost)) ELSE 0

\* http[s]* at index j, then the host
UrlScheme(s, j) ==
    IF LitAt(s, j, <<"h","t","t","p">>) THEN UrlHost(s, RunEnd(s, j + 4, IsLetterS)) ELSE 0

\* index of the captured group of
\* ORCID:\s*http[s]*:\/\/orcid\.org\/(....-....-....-....) at i, or 0
UrlGroup(s, i) ==
    IF LitAt(s, i, OrcidTag) THEN UrlScheme(s, RunEnd(s, i + Len(OrcidTag), IsSpace)) ELSE 0

UrlEnd(s, i) == GroupEnd(UrlGroup(s, i))

\* the texts of the spans sp of s
Matches(s, sp) == [n \in 1..Len(sp) |-> SubSeq(s, sp[n][1], sp[n][2] - 1)]

\* the texts captured by the group of the matches sp of s
Captures(s, sp, Group(_, _)) ==
    [n \in 1..Len(sp) |-> SubSeq(s, Group(s, sp[n][1]), sp[n][2] - 1)]

\* e = re.sub(r'[\.\s]+$', '', e) for every e of ead
TrimmedEmails(ead) == [n \in 1..Len(ead) |-> RStripDotSpace(ead[n])]

\* re.sub(r'Electronic address:\s+', '', cut)
DropElectronic(cut) == RemoveSpans(cut, Spans(cut, ElectronicEnd))

\* getemail once the spans sp of the email pattern in src are known
EmailResult(src, emls, sp) ==
    [src  |-> DropElectronic(RemoveSpans(src, sp)),
     emls |-> DictSetAll(emls, TrimmedEmails(Matches(src, sp)))]

\* PubmedIO.getemail(src, emls): [src |-> the cleaned string, emls |-> the dict]
getemail(src, emls) == EmailResult(src, emls, Spans(src, EmailEnd))

\* 'ORCID:'+o for every o of orcids
OrcidKeys(orcids) == [n \in 1..Len(orcids) |-> OrcidTag \o orcids[n]]

\* the second loop of getidens: it tests and walks `orcids` again
AddAgain(ides, keys) == IF Len(keys) > 0 THEN DictSetAll(ides, keys) ELSE ides

\* getidens once the keys of the first findall and the string src1 after the
\* first re.sub are known
IdensResult(ides, keys, src1) ==
    [src  |-> RemoveSpans(src1, Spans(src1, UrlEnd)),
     ides |-> AddAgain(DictSetAll(ides, keys), keys)]

\* PubmedIO.getidens(src, ides): [src |-> the cleaned string, ides |-> the dict].
\* The matches of the URL pattern are bound to the name `ocrids`, which is
\* never read: they reach no dict.
getidens(src, ides) ==
    IdensResult(ides,
                OrcidKeys(Captures(src, Spans(src, BareEnd), BareGroup)),
                RemoveSpans(src, Spans(src, BareDotsEnd)))

IsAffSep(c) == c \in {";", "|"}

\* the pieces of tafs without leading and trailing '.' and whitespace
TrimmedAffs(tafs) == [n \in 1..Len(tafs) |-> RStripDotSpace(LStripDotSpace(tafs[n]))]

\* getaffs once the pieces tafs are known
AffsResult(afs, tafs) == [n |-> Len(tafs), afs |-> DictSetAll(afs, TrimmedAffs(tafs))]

\* PubmedIO.getaffs(src, afs): [n |-> len(tafs), afs |-> the dict]
getaffs(src, afs) == AffsResult(afs, SplitOn(src, IsAffSep))

(***************************************************************************)
(* Field extractors                                                        *)
(***************************************************************************)
\* label+":"+content if label else content
Fragment(label, content) ==
    IF Len(label) > 0 THEN label \o <<":">> \o content ELSE content

\* PubmedIO.abstract(node): one fragment per child node of the Abstract
abstract(node) ==
    IF ~Truthy(node) THEN <<>>
    ELSE Join(<<"\n">>,
              [n \in 1..Len(node.kids) |->
                  Fragment(attrvalue(node.kids[n], {"Label"}, <<"-">>),
                           gettext(node.kids[n], <<" ">>))])

\* the locals of one iteration of the loop of authorlist
NewAuthor == [auth |-> <<>>, emls |-> <<>>, affs |-> <<>>, ides |-> <<>>, failed |-> FALSE]

\* austr = self.getemail(austr, emls); auth.append(austr); auth.append('')
CollectiveName(st, r) == [st EXCEPT !.auth = <<r.src, <<>>>>, !.emls = r.emls]

\* the name branch: austr is the value read for the key 'CollectvieName'
NameForms(author, st, austr) ==
    IF Len(austr) > 0 THEN CollectiveName(st, getemail(austr, st.emls))
    ELSE [st EXCEPT !.auth = <<childvalue(author, {"LastName", "ForeName"}, <<" ">>),
                               childvalue(author, {"LastName", "Initials"}, <<" ">>)>>]

AuthorName(author, st) ==
    NameForms(author, st, childvalue(author, {"CollectvieName"}, <<" ">>))

\* if src and oid: ide = src+':'+oid; self.getidens(ide, ides)
SourcedIdentifier(st, src, oid) ==
    IF Len(src) > 0 /\ Len(oid) > 0
    THEN [st EXCEPT !.ides = getidens(src \o <<":">> \o oid, st.ides).ides]
    ELSE st

\* if iden: ...; an error raised by gettext(iden) leaves the try block
IdentifierNode(st, iden) ==
    IF ~Truthy(iden) THEN st
    ELSE IF gettextRaises(iden) THEN [st EXCEPT !.failed = TRUE]
    ELSE SourcedIdentifier(st, attrvalue(iden, {"Source"}, <<"-">>), gettext(iden, <<"|">>))

\* the Identifier branch: only the node gotonode returns (index 0) is read
AuthorIdentifier(author, st) ==
    IdentifierNode(st, gotonode(<<"Identifier">>, author, 0))

\* aff = self.getaffs(aff, affs), r2 being the result of getemail
AffiliationAffs(st, r2) == [st EXCEPT !.affs = getaffs(r2.src, st.affs).afs, !.emls = r2.emls]

\* aff = self.getemail(aff, emls), r1 being the result of getidens
AffiliationEmail(st, r1) ==
    AffiliationAffs([st EXCEPT !.ides = r1.ides], getemail(r1.src, st.emls))

\* the body of the loop over AffiliationInfo, aff being the joined text
AffiliationText(st, aff) == AffiliationEmail(st, getidens(aff, st.ides))

\* the loop over the AffiliationInfo elements affis
AffiliationLoop(st, affis) ==
    LET f[n \in 0..Len(affis)] ==
            IF n = 0 THEN st
            ELSE AffiliationText(f[n - 1], childvalue(affis[n], {"Affiliation"}, <<"|">>))
    IN  f[Len(affis)]

\* the loop is skipped when the try block has been left
AuthorAffiliations(author, st) ==
    IF st.failed THEN st
    ELSE AffiliationLoop(st, getElementsByTagName(author, "AffiliationInfo"))

\* except: nothing appended, the entry keeps the two name fields only
AuthorFieldsShort(st) ==
    IF st.failed THEN st.auth
    ELSE st.auth \o <<Join(<<"|">>, st.ides), Join(<<"|">>, st.affs), Join(<<"|">>, st.emls)>>

\* auth.append('|'.join(...)) for ides, affs, emls;
\* except: auth.extend(['', '', ''])
AuthorFields(st) ==
    IF st.failed THEN st.auth \o <<<<>>, <<>>, <<>>>>
    ELSE st.auth \o <<Join(<<"|">>, st.ides), Join(<<"|">>, st.affs), Join(<<"|">>, st.emls)>>

\* one iteration of the loop of authorlist: the entry of one Author element
AuthorEntry(author) ==
    AuthorFields(AuthorAffiliations(author,
                     AuthorIdentifier(author, AuthorName(author, NewAuthor))))

\* the entries of the Author elements authors
AuthorEntries(authors) == [n \in 1..Len(authors) |-> AuthorEntry(authors[n])]

\* PubmedIO.authorlist(node)
authorlist(node) ==
    IF ~Truthy(node) THEN <<>> ELSE AuthorEntries(getElementsByTagName(node, "Author"))

GrantEntries(grants) == [n \in 1..Len(grants) |-> childvalue(grants[n], {}, <<":">>)]

\* PubmedIO.grantlist(node)
grantlist(node) ==
    IF ~Truthy(node) THEN <<>> ELSE GrantEntries(getElementsByTagName(node, "Grant"))

\* the "key:text" entry of one element: attrvalue(e, keys=[key])+":"+gettext(e)
KeyedText(e, key) == attrvalue(e, {key}, <<"-">>) \o <<":">> \o gettext(e, <<" ">>)

KeyedTexts(es, key) == [n \in 1..Len(es) |-> KeyedText(es[n], key)]

\* the entries one MeshHeading element contributes: one per element child
MeshEntries(mesh) == KeyedTexts(SelectSeq(mesh.kids, LAMBDA t : t.kind = "elem"), "UI")

MeshLoop(meshes) ==
    LET f[n \in 0..Len(meshes)] ==
            IF n = 0 THEN <<>> ELSE f[n - 1] \o MeshEntries(meshes[n])
    IN  f[Len(meshes)]

\* PubmedIO.meshheadinglist(node)
meshheadinglist(node) ==
    IF ~Truthy(node) THEN <<>> ELSE MeshLoop(getElementsByTagName(node, "MeshHeading"))

\* the "type:value" strings of the ArticleId elements under node
ArticleIds(node) == KeyedTexts(getElementsByTagName(node, "ArticleId"), "IdType")

\* PubmedIO.articleidlist(node)
articleidlist(node) == IF ~Truthy(node) THEN <<>> ELSE ArticleIds(node)

\* the parentheses left out when the reference has no identifier
ReferenceEntryBare(ref, cit, ids) ==
    IF Truthy(ids) /\ Len(ArticleIds(ref)) > 0
    THEN cit \o <<"(">> \o Join(<<"|">>, ArticleIds(ref)) \o <<")">>
    ELSE cit

\* cit+'('+'|'.join(aids)+')', aids filled only when ids is a node
ReferenceEntry(ref, cit, ids) ==
    cit \o <<"(">> \o Join(<<"|">>, IF Truthy(ids) THEN ArticleIds(ref) ELSE <<>>) \o <<")">>

ReferenceEntries(refs) ==
    [n \in 1..Len(refs) |->
        ReferenceEntry(refs[n], childvalue(refs[n], {"Citation"}, <<"-">>),
                       gotonode(<<"ArticleIdList">>, refs[n], 0))]

\* PubmedIO.referencelist(node)
referencelist(node) ==
    IF ~Truthy(node) THEN <<>> ELSE ReferenceEntries(getElementsByTagName(node, "Reference"))

(***************************************************************************)
(* Record assembler                                                        *)
(***************************************************************************)
FULLCOLS ==
    {"PMID", "DateCompleted", "DateRevised", "ISSN", "JournalTitle", "ISOAbbreviation",
     "VolumeIssue", "PubDate", "Title", "Pagination", "Abstract", "Language",
     "ELocationID", "PublicationStatus", "AuthorList", "GrantList", "MeshHeadingList",
     "ArticleIdList", "ReferenceList"}

\* the minimum width of "{:0>8s}"
PMIDWidth == 8

\* "{:0<8s}" in place of "{:0>8s}": the fill goes to the right of s
PadPMIDRight(s) ==
    IF Len(s) >= PMIDWidth THEN s
    ELSE s \o [n \in 1..(PMIDWidth - Len(s)) |-> "0"]

\* "{:0>8s}".format(s): s right-aligned in at least PMIDWidth columns, filled with "0"
PadPMID(s) ==
    IF Len(s) >= PMIDWidth THEN s
    ELSE [n \in 1..(PMIDWidth - Len(s)) |-> "0"] \o s

\* the Record the body of the loop of parse fills from mc and pd
FillRecord(mc, pd) ==
    [PMID |-> PadPMID(gettext(gotonode(<<"PMID">>, mc, 0), <<" ">>)),
     DateCompleted |-> childvalue(gotonode(<<"DateCompleted">>, mc, 0), {}, <<"-">>),
     DateRevised |-> childvalue(gotonode(<<"DateRevised">>, mc, 0), {}, <<"-">>),
     ISSN |-> gettext(gotonode(<<"Article", "Journal", "ISSN">>, mc, 0), <<" ">>),
     JournalTitle |-> gettext(gotonode(<<"Article", "Journal", "Title">>, mc, 0), <<" ">>),
     ISOAbbreviation |->
         gettext(gotonode(<<"Article", "Journal", "ISOAbbreviation">>, mc, 0), <<" ">>),
     VolumeIssue |->
         childvalue(gotonode(<<"Article", "Journal", "JournalIssue">>, mc, 0),
                    {"Volume", "Issue"}, <<"-">>),
     PubDate |->
         childvalue(gotonode(<<"Article", "Journal", "JournalIssue", "PubDate">>, mc, 0),
                    {}, <<"-">>),
     Title |-> gettext(gotonode(<<"Article", "ArticleTitle">>, mc, 0), <<" ">>),
     Pagination |-> childvalue(gotonode(<<"Article", "Pagination">>, mc, 0), {}, <<"|">>),
     Abstract |-> abstract(gotonode(<<"Article", "Abstract">>, mc, 0)),
     Language |-> gettext(gotonode(<<"Article", "Language">>, mc, 0), <<" ">>),
     ELocationID |->
         attrvalue(gotonode(<<"Article", "ELocationID">>, mc, 0), {"EIdType"}, <<"-">>)
         \o <<":">> \o
         gettext(gotonode(<<"Article", "ELocationID">>, mc, 0), <<" ">>),
     AuthorList |-> authorlist(gotonode(<<"Article", "AuthorList">>, mc, 0)),
     GrantList |-> grantlist(gotonode(<<"Article", "GrantList">>, mc, 0)),
     MeshHeadingList |-> meshheadinglist(gotonode(<<"MeshHeadingList">>, mc, 0)),
     ArticleIdList |-> articleidlist(gotonode(<<"ArticleIdList">>, pd, 0)),
     PublicationStatus |-> gettext(gotonode(<<"PublicationStatus">>, pd, 0), <<" ">>),
     ReferenceList |-> referencelist(gotonode(<<"ReferenceList">>, pd, 0))]

\* the child nodes of the Abstract node, each passed to gettext by abstract
AbstractTargets(node) == IF ~Truthy(node) THEN <<>> ELSE node.kids

\* the element children of the MeshHeading elements meshes
MeshChildren(meshes) ==
    Flatten([n \in 1..Len(meshes) |-> SelectSeq(meshes[n].kids, LAMBDA t : t.kind = "elem")])

\* the element children of the MeshHeading elements, each passed to gettext
MeshTargets(node) ==
    IF ~Truthy(node) THEN <<>> ELSE MeshChildren(getElementsByTagName(node, "MeshHeading"))

\* the ArticleId elements under node, each passed to gettext
ArticleIdTargets(node) ==
    IF ~Truthy(node) THEN <<>> ELSE getElementsByTagName(node, "ArticleId")

\* the ArticleId elements of the references refs that have an ArticleIdList
ReferenceIds(refs) ==
    Flatten([n \in 1..Len(refs) |->
                IF Len(getElementsByTagName(refs[n], "ArticleIdList")) = 0 THEN <<>>
                ELSE getElementsByTagName(refs[n], "ArticleId")])

\* the ArticleId elements referencelist passes to gettext
ReferenceTargets(node) ==
    IF ~Truthy(node) THEN <<>> ELSE ReferenceIds(getElementsByTagName(node, "Reference"))

\* the nodes the body of the loop of parse passes to gettext outside the try
\* block of authorlist
GettextTargets(mc, pd) ==
    <<gotonode(<<"PMID">>, mc, 0),
      gotonode(<<"Article", "Journal", "ISSN">>, mc, 0),
      gotonode(<<"Article", "Journal", "Title">>, mc, 0),
      gotonode(<<"Article", "Journal", "ISOAbbreviation">>, mc, 0),
      gotonode(<<"Article", "ArticleTitle">>, mc, 0),
      gotonode(<<"Article", "Language">>, mc, 0),
      gotonode(<<"Article", "ELocationID">>, mc, 0),
      gotonode(<<"PublicationStatus">>, pd, 0)>>
    \o AbstractTargets(gotonode(<<"Article", "Abstract">>, mc, 0))
    \o MeshTargets(gotonode(<<"MeshHeadingList">>, mc, 0))
    \o ArticleIdTargets(gotonode(<<"ArticleIdList">>, pd, 0))
    \o ReferenceTargets(gotonode(<<"ReferenceList">>, pd, 0))

\* some call of gettext raises
SomeRaises(targets) == \E n \in 1..Len(targets) : gettextRaises(targets[n])

\* filling the record raises UnboundLocalError
FillRaises(mc, pd) == SomeRaises(GettextTargets(mc, pd))

\* self.dom.getElementsByTagName('PubmedArticle')
Articles == getElementsByTagName(dom, "PubmedArticle")

\* pa.getElementsByTagName(tag)[0] succeeds
HasSection(pa, tag) == Len(getElementsByTagName(pa, tag)) > 0

\* One iteration of the loop of parse that reaches the yield: both sections
\* of the article exist, the record is filled and handed to the caller.
Yield ==
    /\ pc = "run"
    /\ pos <= Len(Articles)
    /\ HasSection(Articles[pos], "MedlineCitation")
    /\ HasSection(Articles[pos], "PubmedData")
    /\ ~FillRaises(getElementsByTagName(Articles[pos], "MedlineCitation")[1],
                   getElementsByTagName(Articles[pos], "PubmedData")[1])
    /\ out' = Append(out, FillRecord(getElementsByTagName(Articles[pos], "MedlineCitation")[1],
                                     getElementsByTagName(Articles[pos], "PubmedData")[1]))
    /\ pos' = pos + 1
    /\ UNCHANGED <<dom, pc>>

\* One iteration of the loop of parse in which [0] of an empty node list
\* raises IndexError, or gettext raises UnboundLocalError: the generator ends
\* with the error, nothing is yielded.
Raise ==
    /\ pc = "run"
    /\ pos <= Len(Articles)
    /\ \/ ~HasSection(Articles[pos], "MedlineCitation")
       \/ ~HasSection(Articles[pos], "PubmedData")
       \/ /\ HasSection(Articles[pos], "MedlineCitation")
          /\ HasSection(Articles[pos], "PubmedData")
          /\ FillRaises(getElementsByTagName(Articles[pos], "MedlineCitation")[1],
                        getElementsByTagName(Articles[pos], "PubmedData")[1])
    /\ pc' = "raised"
    /\ UNCHANGED <<dom, pos, out>>

\* The loop of parse is exhausted: the generator returns.
Finish ==
    /\ pc = "run"
    /\ pos > Len(Articles)
    /\ pc' = "done"
    /\ UNCHANGED <<dom, pos, out>>

Next == Yield \/ Raise \/ Finish

(***************************************************************************)
(* Input documents                                                         *)
(***************************************************************************)
\* most articles of one document
MaxArticles == 2

\* most digits of a source PMID
MaxPmidLen == 9

\* most sections of one Abstract
MaxSections == 2

\* most tokens (child groups and author breaks) of one AuthorList
MaxItems == 3

SeqsUpTo(S, n) == UNION {[1..k -> S] : k \in 0..n}

Leaf(tag, s) == Elem(tag, <<>>, <<Text(s)>>)

Opt(absent, field, node) == IF field \in absent THEN <<>> ELSE <<node>>

Digits == <<"1","2","3","4","5","6","7","8","9","0">>

PmidText(k) == [n \in 1..k |-> Digits[((n - 1) % 10) + 1]]

YearMonth == <<Leaf("Year", <<"2","0","1","9">>), Leaf("Month", <<"0","2">>)>>

JournalNode(absent) ==
    Elem("Journal", <<>>,
         Opt(absent, "ISSN",
             Elem("ISSN", <<Attr("IssnType", <<"P","r","i","n","t">>)>>,
                  <<Text(<<"1","5","4","1","-","0","0","4","8">>)>>))
         \o Opt(absent, "VolumeIssue",
                Elem("JournalIssue", <<>>,
                     <<Leaf("Volume", <<"1","0","9">>), Leaf("Issue", <<"2">>)>>
                     \o Opt(absent, "PubDate", Elem("PubDate", <<>>, YearMonth))))
         \o Opt(absent, "JournalTitle", Leaf("Title", <<"A","m"," ","J">>))
         \o Opt(absent, "ISOAbbreviation", Leaf("ISOAbbreviation", <<"A","J","P","H">>)))

PersonalName ==
    <<Leaf("LastName", <<"K","i","r","c","h","n","e","r">>),
      Leaf("ForeName", <<"J","u","l","i","a","n">>),
      Leaf("Initials", <<"J">>)>>

AffiliationInfo(s) == Elem("AffiliationInfo", <<>>, <<Leaf("Affiliation", s)>>)

Identifier(s) == Elem("Identifier", <<Attr("Source", <<"O","R","C","I","D">>)>>, <<Text(s)>>)

Section(label, kids) ==
    Elem("AbstractText", IF Len(label) > 0 THEN <<Attr("Label", label)>> ELSE <<>>, kids)

SampleAbstract ==
    Elem("Abstract", <<>>,
         <<Section(<<"O","B","J","E","C","T","I","V","E","S">>, <<Text(<<"t","e","x","t","1">>)>>)>>)

SampleAuthorList ==
    Elem("AuthorList", <<>>,
         <<Elem("Author", <<>>, PersonalName \o <<AffiliationInfo(<<"D","e","p","t"," ","A">>)>>)>>)

SampleReferenceList ==
    Elem("ReferenceList", <<>>,
         <<Elem("Reference", <<>>,
                <<Leaf("Citation", <<"N","a","t"," ","M","e","t","h","o","d","s","."," ","2","0","0","9">>),
                  Elem("ArticleIdList", <<>>,
                       <<Elem("ArticleId", <<Attr("IdType", <<"p","u","b","m","e","d">>)>>,
                              <<Text(<<"1","9","6","6","8","2","0","3">>)>>)>>)>>)>>)

\* the Article element; abs and auths are the Abstract and the AuthorList
ArticleNode(absent, abs, auths) ==
    Elem("Article", <<>>,
         <<JournalNode(absent)>>
         \o Opt(absent, "Title", Leaf("ArticleTitle", <<"T","i","t","l","e">>))
         \o Opt(absent, "Pagination",
                Elem("Pagination", <<>>, <<Leaf("MedlinePgn", <<"2","0","3","-","2","0","5">>)>>))
         \o Opt(absent, "ELocationID",
                Elem("ELocationID", <<Attr("EIdType", <<"d","o","i">>)>>,
                     <<Text(<<"1","0",".","2","1","0","5">>)>>))
         \o Opt(absent, "Abstract", abs)
         \o Opt(absent, "AuthorList", auths)
         \o Opt(absent, "Language", Leaf("Language", <<"e","n","g">>))
         \o Opt(absent, "GrantList",
                Elem("GrantList", <<>>,
                     <<Elem("Grant", <<>>,
                            <<Leaf("GrantID", <<"R","0","1">>), Leaf("Agency", <<"N","I","H">>)>>)>>)))

\* the citation section with a PMID of k digits
MedlineCitation(absent, k, abs, auths) ==
    Elem("MedlineCitation", <<>>,
         Opt(absent, "PMID", Elem("PMID", <<Attr("Version", <<"1">>)>>, <<Text(PmidText(k))>>))
         \o Opt(absent, "DateCompleted",
                Elem("DateCompleted", <<>>, YearMonth \o <<Leaf("Day", <<"0","9">>)>>))
         \o Opt(absent, "DateRevised",
                Elem("DateRevised", <<>>, YearMonth \o <<Leaf("Day", <<"1","0">>)>>))
         \o <<ArticleNode(absent, abs, auths)>>
         \o Opt(absent, "MeshHeadingList",
                Elem("MeshHeadingList", <<>>,
                     <<Elem("MeshHeading", <<>>,
                            <<Elem("DescriptorName", <<Attr("UI", <<"D","0","6">>)>>,
                                   <<Text(<<"E","u","r","o","p","e">>)>>)>>)>>)))

\* the processing-metadata section
PubmedData(absent) ==
    Elem("PubmedData", <<>>,
         Opt(absent, "PublicationStatus",
             Leaf("PublicationStatus", <<"p","p","u","b","l","i","s","h">>))
         \o Opt(absent, "ArticleIdList",
                Elem("ArticleIdList", <<>>,
                     <<Elem("ArticleId", <<Attr("IdType", <<"d","o","i">>)>>,
                            <<Text(<<"1","0",".","2","1","0","5">>)>>)>>))
         \o Opt(absent, "ReferenceList", SampleReferenceList))

\* an article with both sections, lacking the source nodes of the fields in absent
Article(absent, k) ==
    Elem("PubmedArticle", <<>>,
         <<MedlineCitation(absent, k, SampleAbstract, SampleAuthorList), PubmedData(absent)>>)

ArticleNoCitation == Elem("PubmedArticle", <<>>, <<PubmedData({})>>)

ArticleNoData ==
    Elem("PubmedArticle", <<>>, <<MedlineCitation({}, 4, SampleAbstract, SampleAuthorList)>>)

ArticleNoSections == Elem("PubmedArticle", <<>>, <<>>)

\* an article whose PMID starts with a comment: gettext raises on it
ArticleCommentedPmid ==
    Elem("PubmedArticle", <<>>,
         <<Elem("MedlineCitation", <<>>,
                <<Elem("PMID", <<>>, <<Comment(<<"c">>), Text(PmidText(4))>>)>>),
           PubmedData({})>>)

\* a document whose only top-level node is the root element
DocumentOf(articles) == Document(<<Elem("PubmedArticleSet", <<>>, articles)>>)

\* a document as Pubmed distributes it: the document type declaration, then
\* the root element
TypedDocumentOf(articles) ==
    Document(<<DocumentType("PubmedArticleSet"),
               Elem("PubmedArticleSet", <<>>, articles)>>)

\* the sets of fields whose source nodes one article lacks
AbsentSets == {{}, FULLCOLS} \cup {{f} : f \in FULLCOLS}

CoreArticles ==
    {Article({}, 4), Article({}, MaxPmidLen), Article(FULLCOLS, 4),
     ArticleNoCitation, ArticleNoData}

LastArticles ==
    {Article({}, k) : k \in 1..MaxPmidLen}
    \cup {Article(a, 4) : a \in AbsentSets}
    \cup {ArticleNoCitation, ArticleNoData, ArticleNoSections, ArticleCommentedPmid}

\* documents of at most MaxArticles articles
Documents ==
    {DocumentOf(<<>>), TypedDocumentOf(<<>>)}
    \cup {DocumentOf(pre \o <<a>>) : pre \in SeqsUpTo(CoreArticles, MaxArticles - 1),
                                     a \in LastArticles}
    \cup {TypedDocumentOf(<<a>>) : a \in CoreArticles}

Init ==
    /\ dom \in Documents
    /\ pc = "run"
    /\ pos = 1
    /\ out = <<>>

Spec == Init /\ [][Next]_vars

(***************************************************************************)
(* Input documents that vary the Abstract                                  *)
(***************************************************************************)
Sup18 == Leaf("sup", <<"1","8">>)

Sub2 == Leaf("sub", <<"2">>)

\* the child nodes of one section: plain text, or text with inline elements
SectionContents ==
    {<<Text(<<"t","e","x","t","1">>)>>,
     <<Sup18, Text(<<" ","F">>)>>,
     <<Text(<<"T","o"," ">>), Sup18, Text(<<" ","F"," ","a","n","d"," ">>), Sup18,
       Text(<<" ","F","D","G">>)>>,
     <<Text(<<"H">>), Sub2, Text(<<"O"," ">>), Sup18, Text(<<"F">>)>>}

SectionLabels ==
    {<<>>, <<"O","B","J","E","C","T","I","V","E","S">>, <<"M","E","T","H","O","D","S">>}

Sections == {Section(l, c) : l \in SectionLabels, c \in SectionContents}

\* the whitespace an indented document has before each child element
Indent == Text(<<"\n"," "," ">>)

\* the child nodes of an indented Abstract: whitespace text around every section
Indented(sections) ==
    Flatten([n \in 1..Len(sections) |-> <<Indent, sections[n]>>]) \o <<Text(<<"\n">>)>>

AbstractNode(sections, indented) ==
    Elem("Abstract", <<>>, IF indented THEN Indented(sections) ELSE sections)

AbstractArticle(abs) ==
    Elem("PubmedArticle", <<>>,
         <<MedlineCitation(FULLCOLS \ {"Abstract"}, 4, abs, SampleAuthorList),
           PubmedData(FULLCOLS)>>)

AbstractDocuments ==
    {DocumentOf(<<>>), DocumentOf(<<ArticleNoCitation>>)}
    \cup {DocumentOf(<<AbstractArticle(AbstractNode(ss, ind))>>) :
              ss \in SeqsUpTo(Sections, MaxSections), ind \in BOOLEAN}

InitAbstract ==
    /\ dom \in AbstractDocuments
    /\ pc = "run"
    /\ pos = 1
    /\ out = <<>>

SpecAbstract == InitAbstract /\ [][Next]_vars

(***************************************************************************)
(* Input documents that vary the AuthorList                                *)
(***************************************************************************)
OrcidA == <<"0","0","0","0","-","0","0","0","1","-","8","2","2","4","-","3","4","3","3">>

OrcidB == <<"0","0","0","0","-","0","0","0","1","-","8","2","2","4","-","3","4","3","4">>

AffDeptA ==
    <<"D","e","p","t"," ","A",";"," ","D","e","p","t"," ","A","."," ","a","@","x",".","o","r","g">>

\* a no-break space (U+00A0) after the tag
AffDeptB == <<"D","e","p","t"," ","B","."," ">> \o OrcidTag \o <<" ">> \o OrcidA

AffOrcidUrl == OrcidTag \o <<" ","h","t","t","p","s">> \o OrcidHost \o OrcidB

\* a no-break space (U+00A0) before the address
AffEmailOnly == ElectronicAddress \o <<" ","a","@","x",".","o","r","g">>

ConsortiumName ==
    <<"C","o","n","s","o","r","t","i","u","m"," ","t","e","a","m","@","x",".","o","r","g">>

\* the groups of child nodes an Author element is assembled from
Items ==
    <<PersonalName,
      <<Leaf("CollectiveName", ConsortiumName)>>,
      <<Identifier(OrcidA)>>,
      <<Identifier(OrcidB)>>,
      <<AffiliationInfo(AffDeptA)>>,
      <<AffiliationInfo(AffDeptB)>>,
      <<AffiliationInfo(AffOrcidUrl)>>,
      <<AffiliationInfo(AffEmailOnly)>>>>

\* a token is the index of an item, or 0: the next Author element starts
Tokens == 0..Len(Items)

AddToken(groups, token) ==
    IF token = 0 THEN Append(groups, <<>>)
    ELSE [groups EXCEPT ![Len(groups)] = @ \o Items[token]]

\* the child nodes of the Author elements a token sequence describes
AuthorKids(tokens) ==
    LET f[n \in 0..Len(tokens)] ==
            IF n = 0 THEN <<<<>>>> ELSE AddToken(f[n - 1], tokens[n])
    IN  f[Len(tokens)]

AuthorElements(groups) == [n \in 1..Len(groups) |-> Elem("Author", <<>>, groups[n])]

AuthorListNode(tokens) == Elem("AuthorList", <<>>, AuthorElements(AuthorKids(tokens)))

AuthorsArticle(auths) ==
    Elem("PubmedArticle", <<>>,
         <<MedlineCitation(FULLCOLS \ {"AuthorList"}, 4, SampleAbstract, auths),
           PubmedData(FULLCOLS)>>)

AuthorDocuments ==
    {DocumentOf(<<>>), DocumentOf(<<ArticleNoCitation>>)}
    \cup {DocumentOf(<<AuthorsArticle(AuthorListNode(ts))>>) : ts \in SeqsUpTo(Tokens, MaxItems)}

InitAuthors ==
    /\ dom \in AuthorDocuments
    /\ pc = "run"
    /\ pos = 1
    /\ out = <<>>

SpecAuthors == InitAuthors /\ [][Next]_vars

(***************************************************************************)
(* Input documents that vary the ReferenceList                             *)
(***************************************************************************)
\* most Reference elements of one ReferenceList
MaxRefs == 2

CitationTexts ==
    {<<"N","a","t"," ","M","e","t","h","o","d","s","."," ","2","0","0","9">>, <<"B">>}

ArticleId(type, value) == Elem("ArticleId", <<Attr("IdType", type)>>, <<Text(value)>>)

PubmedId == ArticleId(<<"p","u","b","m","e","d">>, <<"1","9","6","6","8","2","0","3">>)

DoiId == ArticleId(<<"d","o","i">>, <<"1","0",".","1","/","x">>)

\* the element children a Reference has after its Citation: no identifier
\* list, a list of one identifier, a list of two
IdentifierLists ==
    {<<>>,
     <<Elem("ArticleIdList", <<>>, <<PubmedId>>)>>,
     <<Elem("ArticleIdList", <<>>, <<PubmedId, DoiId>>)>>}

\* the child nodes of an element, with whitespace text around them when indented
Layout(kids, indented) == IF indented /\ Len(kids) > 0 THEN Indented(kids) ELSE kids

IndentedList(ids, indented) ==
    [n \in 1..Len(ids) |-> Elem("ArticleIdList", <<>>, Layout(ids[n].kids, indented))]

Reference(cit, ids, indented) ==
    Elem("Reference", <<>>, Layout(<<Leaf("Citation", cit)>> \o IndentedList(ids, indented), indented))

References(indented) ==
    {Reference(c, ids, indented) : c \in CitationTexts, ids \in IdentifierLists}

ReferenceListNode(refs, indented) == Elem("ReferenceList", <<>>, Layout(refs, indented))

ReferencesArticle(refs) ==
    Elem("PubmedArticle", <<>>,
         <<MedlineCitation(FULLCOLS, 4, SampleAbstract, SampleAuthorList),
           Elem("PubmedData", <<>>, <<refs>>)>>)

ReferenceDocuments ==
    {DocumentOf(<<>>), DocumentOf(<<ArticleNoCitation>>)}
    \cup UNION {{DocumentOf(<<ReferencesArticle(ReferenceListNode(rs, ind))>>) :
                     rs \in SeqsUpTo(References(ind), MaxRefs)} : ind \in BOOLEAN}

InitReferences ==
    /\ dom \in ReferenceDocuments
    /\ pc = "run"
    /\ pos = 1
    /\ out = <<>>

SpecReferences == InitReferences /\ [][Next]_vars

(***************************************************************************)
(* Input documents with authors whose Identifier cannot be read            *)
(***************************************************************************)
\* most Author elements of one AuthorList
MaxAuthors == 3

\* an Identifier whose first child is a comment: gettext raises on it
CommentedIdentifier ==
    Elem("Identifier", <<Attr("Source", <<"O","R","C","I","D">>)>>,
         <<Comment(<<"c">>), Text(OrcidA)>>)

\* a personal name, an Identifier that makes the try block fail, an affiliation
FailingAuthor == PersonalName \o <<CommentedIdentifier, AffiliationInfo(AffDeptA)>>

\* an Identifier with a comment after its text: gettext returns
TrailingComment ==
    Elem("Identifier", <<Attr("Source", <<"O","R","C","I","D">>)>>,
         <<Text(OrcidB), Comment(<<"c">>)>>)

\* the child nodes of the Author elements of a roster
AuthorShapes ==
    {PersonalName,
     FailingAuthor,
     <<CommentedIdentifier>>,
     PersonalName \o <<Identifier(OrcidA), AffiliationInfo(AffDeptB)>>,
     PersonalName \o <<TrailingComment, AffiliationInfo(AffEmailOnly)>>}

FailureDocuments ==
    {DocumentOf(<<>>), DocumentOf(<<ArticleNoCitation>>)}
    \cup {DocumentOf(<<AuthorsArticle(Elem("AuthorList", <<>>, AuthorElements(kids)))>>) :
              kids \in SeqsUpTo(AuthorShapes, MaxAuthors)}

InitFailure ==
    /\ dom \in FailureDocuments
    /\ pc = "run"
    /\ pos = 1
    /\ out = <<>>

SpecFailure == InitFailure /\ [][Next]_vars

(***************************************************************************)
(* The navigator operations called on a parsed document                    *)
(***************************************************************************)
NavigatorDocuments ==
    {DocumentOf(<<>>),
     DocumentOf(<<Article({}, 4)>>),
     DocumentOf(<<Article(FULLCOLS, 4)>>),
     DocumentOf(<<ArticleNoCitation>>),
     DocumentOf(<<ArticleCommentedPmid>>),
     DocumentOf(<<Article({"PMID"}, 4), Article({}, 5)>>),
     TypedDocumentOf(<<Article({}, 4)>>),
     Document(<<Elem("PubmedArticleSet", <<>>, <<Article({}, 4)>>), Comment(<<"c">>)>>)}

\* the paths 'tag|subtag|...' of the calls
NavigatorPaths ==
    {<<"PMID">>,
     <<"Article", "Journal", "ISSN">>,
     <<"PubmedData", "PublicationStatus">>,
     <<"PubmedArticle", "MedlineCitation", "DateCompleted">>,
     <<"Article", "Nothing">>,
     <<"Nothing">>,
     <<"*">>,
     <<"PubmedArticle", "*">>}

\* the node arguments of the calls: None, the document, some of its elements
NavigatorNodes ==
    {None, dom}
    \cup Range(getElementsByTagName(dom, "MedlineCitation"))
    \cup Range(getElementsByTagName(dom, "PMID"))
    \cup Range(getElementsByTagName(dom, "ELocationID"))
    \cup Range(getElementsByTagName(dom, "DateCompleted"))

InitNavigator ==
    /\ dom \in NavigatorDocuments
    /\ pc = "ready"
    /\ pos = 1
    /\ out = <<>>

\* self.gotonode(path, pnode=node, index=index), with the first or the last
\* of the nodes of each tag
CallGotonode ==
    /\ pc = "ready"
    /\ \E path \in NavigatorPaths, node \in NavigatorNodes, index \in {0, -1} :
           out' = <<[op |-> "gotonode", node |-> node, path |-> path, index |-> index,
                     result |-> gotonode(path, node, index)]>>
    /\ pc' = "returned"
    /\ UNCHANGED <<dom, pos>>

\* self.childvalue(node)
CallChildvalue ==
    /\ pc = "ready"
    /\ \E node \in NavigatorNodes :
           out' = <<[op |-> "childvalue", node |-> node, path |-> <<>>, index |-> 0,
                     result |-> childvalue(node, {}, <<"-">>)]>>
    /\ pc' = "returned"
    /\ UNCHANGED <<dom, pos>>

\* self.attrvalue(node)
CallAttrvalue ==
    /\ pc = "ready"
    /\ \E node \in NavigatorNodes :
           out' = <<[op |-> "attrvalue", node |-> node, path |-> <<>>, index |-> 0,
                     result |-> attrvalue(node, {}, <<"-">>)]>>
    /\ pc' = "returned"
    /\ UNCHANGED <<dom, pos>>

\* self.gettext(node), when it returns
CallGettext ==
    /\ pc = "ready"
    /\ \E node \in NavigatorNodes :
           /\ ~gettextRaises(node)
           /\ out' = <<[op |-> "gettext", node |-> node, path |-> <<>>, index |-> 0,
                        result |-> gettext(node, <<" ">>)]>>
    /\ pc' = "returned"
    /\ UNCHANGED <<dom, pos>>

\* self.gettext(node), when it raises UnboundLocalError
CallGettextRaises ==
    /\ pc = "ready"
    /\ \E node \in NavigatorNodes :
           /\ gettextRaises(node)
           /\ out' = <<[op |-> "gettext", node |-> node, path |-> <<>>, index |-> 0,
                        result |-> <<>>]>>
    /\ pc' = "raised"
    /\ UNCHANGED <<dom, pos>>

NextNavigator ==
    CallGotonode \/ CallChildvalue \/ CallAttrvalue \/ CallGettext \/ CallGettextRaises

SpecNavigator == InitNavigator /\ [][NextNavigator]_vars

(***************************************************************************)
(* Properties                                                              *)
(***************************************************************************)
\* The records handed out so far are those of the first Len(out) articles:
\* an article that raises ends the generator.
Yielded == 1..Len(out)

IsPipe(c) == c = "|"

\* the entries of a pipe-joined field
Fields(s) == IF Len(s) = 0 THEN <<>> ELSE SplitOn(s, IsPipe)

NoDup(seq) == \A a, b \in 1..Len(seq) : a # b => seq[a] # seq[b]

\* the distinct elements of seq, each at its first occurrence
FirstOccurrences(seq) ==
    LET keep == {n \in 1..Len(seq) : \A m \in 1..(n - 1) : seq[m] # seq[n]}
        f[n \in 0..Len(seq)] ==
            IF n = 0 THEN <<>>
            ELSE IF n \in keep THEN Append(f[n - 1], seq[n]) ELSE f[n - 1]
    IN  f[Len(seq)]

\* a is t with some characters deleted
IsSubsequence(a, t) ==
    LET f[n \in 0..Len(a)] ==
            IF n = 0 THEN 0
            ELSE LET from == f[n - 1]
                     hits == {j \in (from + 1)..Len(t) : t[j] = a[n]}
                 IN  IF from > Len(t) \/ hits = {} THEN Len(t) + 1 ELSE Least(hits)
    IN  f[Len(a)] <= Len(t)

HasChild(node, tag) == \E n \in 1..Len(node.kids) : node.kids[n].name = tag

\* the data of the text nodes below node
TextsBelow(node) ==
    UNION {{e.kids[n].data : n \in {m \in 1..Len(e.kids) : e.kids[m].kind = "text"}} :
               e \in Range(Descendants(node))}

AuthorsOf(article) == getElementsByTagName(article, "Author")

\* the tag of the source node of every field of the record
SourceTag ==
    [PMID |-> "PMID", DateCompleted |-> "DateCompleted", DateRevised |-> "DateRevised",
     ISSN |-> "ISSN", JournalTitle |-> "Title", ISOAbbreviation |-> "ISOAbbreviation",
     VolumeIssue |-> "JournalIssue", PubDate |-> "PubDate", Title |-> "ArticleTitle",
     Pagination |-> "Pagination", Abstract |-> "Abstract", Language |-> "Language",
     ELocationID |-> "ELocationID", PublicationStatus |-> "PublicationStatus",
     AuthorList |-> "AuthorList", GrantList |-> "GrantList",
     MeshHeadingList |-> "MeshHeadingList", ArticleIdList |-> "ArticleIdList",
     ReferenceList |-> "ReferenceList"]

\* the source node of field f is absent from the article
Absent(article, f) == Len(getElementsByTagName(article, SourceTag[f])) = 0

\* C1: once parse has ended it has yielded exactly one Record per
\* PubmedArticle element of the document, in document order (none for a
\* document without articles).
C1_OneRecordPerArticle ==
    pc # "run" =>
        /\ Len(out) = Len(Articles)
        /\ \A i \in Yielded : Absent(Articles[i], "PMID") <=> out[i].PMID = PadPMID(<<>>)

\* C2: whatever sub-nodes an article lacks, the two sections included, parse
\* never raises an error.
C2_NeverRaises == pc # "raised"

\* C3: every yielded record has the 19 canonical fields, and every field
\* whose source node is absent from the article is the empty string or the
\* empty list.
C3_AbsentFieldsEmpty ==
    \A i \in Yielded :
        /\ DOMAIN out[i] = FULLCOLS
        /\ \A f \in FULLCOLS : Absent(Articles[i], f) => out[i][f] = <<>>

\* the text of the PMID element of an article, '' when it has none
SourcePmid(article) ==
    LET nodes == getElementsByTagName(article, "PMID")
    IN  IF Len(nodes) = 0 THEN <<>> ELSE Strip(nodes[1].kids[1].data)

\* C4 as claimed: the PMID field of every yielded record is exactly 8
\* characters long, whatever the length of the source PMID.
C4_PmidExactly8 == \A i \in Yielded : Len(out[i].PMID) = PMIDWidth

\* C4 as amended: the PMID field of every yielded record is the source PMID
\* text left-padded with "0" to a width of at least 8: exactly 8 characters
\* when the source has at most 8, the unchanged source when it has more.
C4_PmidPadded ==
    \A i \in Yielded :
        LET src == SourcePmid(Articles[i])
            p   == out[i].PMID
            pad == Len(p) - Len(src)
        IN  /\ Len(p) = IF Len(src) > PMIDWidth THEN Len(src) ELSE PMIDWidth
            /\ SubSeq(p, pad + 1, Len(p)) = src
            /\ \A n \in 1..pad : p[n] = "0"

\* a 9-digit and a 4-digit source PMID have both been rendered
C4_Witness ==
    /\ \E i \in Yielded :
           /\ SourcePmid(Articles[i]) = <<"1","2","3","4">>
           /\ out[i].PMID = <<"0","0","0","0","1","2","3","4">>
    /\ \E i \in Yielded :
           /\ Len(SourcePmid(Articles[i])) = 9
           /\ out[i].PMID = SourcePmid(Articles[i])

IsCollective(author) ==
    /\ HasChild(author, "CollectiveName")
    /\ ~HasChild(author, "LastName")
    /\ ~HasChild(author, "ForeName")
    /\ ~HasChild(author, "Initials")

\* C5: the entry of an author with a CollectiveName child and no personal
\* name starts [name, ""], name being the collective name without its
\* embedded email addresses, and those addresses are in the email set.
C5_CollectiveName ==
    \A i \in Yielded : \A k \in 1..Len(AuthorsOf(Articles[i])) :
        LET author == AuthorsOf(Articles[i])[k]
            entry  == out[i].AuthorList[k]
            name   == getemail(childvalue(author, {"CollectiveName"}, <<" ">>), <<>>)
        IN  IsCollective(author) =>
                /\ entry[1] = name.src
                /\ entry[2] = <<>>
                /\ Range(name.emls) \subseteq Range(Fields(entry[5]))

\* the texts of the Affiliation elements of an author
AffiliationTexts(author) ==
    {ChildContent(a) : a \in Range(getElementsByTagName(author, "Affiliation"))}

\* the ORCIDs a text holds in bare form or in URL form
OrcidsIn(t) ==
    Range(Captures(t, Spans(t, BareEnd), BareGroup))
    \cup Range(Captures(t, Spans(t, UrlEnd), UrlGroup))

\* C6: for every affiliation text with an ORCID in bare or URL form, getidens
\* puts "ORCID:<id>" into the identifier set and returns the text without
\* the ORCID; the author's identifier field holds it.
C6_OrcidCaptured ==
    \A i \in Yielded : \A k \in 1..Len(AuthorsOf(Articles[i])) :
        \A t \in AffiliationTexts(AuthorsOf(Articles[i])[k]) : \A o \in OrcidsIn(t) :
            /\ (OrcidTag \o o) \in Range(getidens(t, <<>>).ides)
            /\ ~Contains(getidens(t, <<>>).src, o)
            /\ (OrcidTag \o o) \in Range(Fields(out[i].AuthorList[k][3]))

\* the element children of the Abstract of an article
SectionsOf(article) ==
    LET abs == getElementsByTagName(article, "Abstract")
    IN  IF Len(abs) = 0 THEN <<>> ELSE SelectSeq(abs[1].kids, LAMBDA n : n.kind = "elem")

\* C7: the Abstract field is one fragment per section (element child) of the
\* Abstract node, in order, joined by single newlines, "Label:text" for a
\* labelled section and "text" otherwise, however the document is indented.
C7_AbstractFragments ==
    \A i \in Yielded :
        LET secs == SectionsOf(Articles[i])
        IN  out[i].Abstract =
                Join(<<"\n">>,
                     [n \in 1..Len(secs) |->
                         Fragment(attrvalue(secs[n], {"Label"}, <<"-">>),
                                  gettext(secs[n], <<" ">>))])

\* one fragment per direct child: the trimmed text of a non-empty text child,
\* the own text of an element child
OwnFragments(node) ==
    LET f[n \in 0..Len(node.kids)] ==
            IF n = 0 THEN <<>>
            ELSE IF node.kids[n].kind = "text"
            THEN AppendContent(f[n - 1], Strip(node.kids[n].data))
            ELSE Append(f[n - 1], ChildContent(node.kids[n]))
    IN  f[Len(node.kids)]

\* C8: gettext of a node is the join, in document order, of one fragment per
\* direct child, an inline element contributing its own text exactly once.
C8_MixedText ==
    \A i \in Yielded : \A s \in Range(SectionsOf(Articles[i])) :
        gettext(s, <<" ">>) = Join(<<" ">>, OwnFragments(s))

\* the emails of the Affiliation texts of an author, in source order
RawEmails(author) ==
    LET affis == getElementsByTagName(author, "AffiliationInfo")
    IN  Flatten([n \in 1..Len(affis) |->
            LET t == getidens(childvalue(affis[n], {"Affiliation"}, <<"|">>), <<>>).src
            IN  TrimmedEmails(Matches(t, Spans(t, EmailEnd)))])

\* the affiliation entries of the Affiliation texts of an author, in source order
RawAffiliations(author) ==
    LET affis == getElementsByTagName(author, "AffiliationInfo")
    IN  Flatten([n \in 1..Len(affis) |->
            LET t == getidens(childvalue(affis[n], {"Affiliation"}, <<"|">>), <<>>).src
            IN  TrimmedAffs(SplitOn(getemail(t, <<>>).src, IsAffSep))])

\* reading the first Identifier of the author raises, so that the try block
\* of authorlist is left before any affiliation is read
Fails(author) ==
    LET idens == getElementsByTagName(author, "Identifier")
    IN  Len(idens) > 0 /\ Len(idens[1].kids) > 0 /\ idens[1].kids[1].kind = "comment"

\* C9: the identifiers, affiliations and emails of every author hold each
\* distinct string once, in order of first occurrence, and only values that
\* occur in the source of that author.
C9_AuthorSets ==
    \A i \in Yielded : \A k \in 1..Len(AuthorsOf(Articles[i])) :
        LET author == AuthorsOf(Articles[i])[k]
            entry  == out[i].AuthorList[k]
            ides   == Fields(entry[3])
            affs   == Fields(entry[4])
            emls   == Fields(entry[5])
            own    == TextsBelow(author)
        IN  /\ NoDup(ides) /\ NoDup(affs) /\ NoDup(emls)
            /\ ~IsCollective(author) /\ ~Fails(author) =>
                   emls = FirstOccurrences(RawEmails(author))
            /\ ~Fails(author) =>
                   entry[4] = Join(<<"|">>, FirstOccurrences(RawAffiliations(author)))
            /\ \A x \in Range(emls) : \E t \in own : Contains(t, x)
            /\ \A x \in Range(ides) :
                   /\ LitAt(x, 1, OrcidTag)
                   /\ \E t \in own : Contains(t, SubSeq(x, Len(OrcidTag) + 1, Len(x)))
            /\ \A x \in Range(affs) : \E t \in own : IsSubsequence(x, t)

\* an author whose source repeats "Dept A" has it once, beside another
\* author with values of its own
C9_Witness ==
    \E i \in Yielded :
        /\ Len(out[i].AuthorList) = 2
        /\ AffDeptA \in AffiliationTexts(AuthorsOf(Articles[i])[1])
        /\ out[i].AuthorList[1][4] = <<"D","e","p","t"," ","A">>
        /\ out[i].AuthorList[1][5] = <<"a","@","x",".","o","r","g">>
        /\ out[i].AuthorList[2][3] = OrcidTag \o OrcidA
        /\ out[i].AuthorList[2][4] = <<"D","e","p","t"," ","B">>
        /\ out[i].AuthorList[2][5] = <<>>

\* the ORCID Identifier children of an author
OrcidIdentifiers(author) ==
    SelectSeq(author.kids,
              LAMBDA n : n.name = "Identifier"
                         /\ attrvalue(n, {"Source"}, <<"-">>) = <<"O","R","C","I","D">>)

\* C10: when an author has several Identifier Source="ORCID" children, every
\* one of them, not only the first, is in the identifier set as "ORCID:<value>".
C10_AllIdentifiers ==
    \A i \in Yielded : \A k \in 1..Len(AuthorsOf(Articles[i])) :
        LET idens == OrcidIdentifiers(AuthorsOf(Articles[i])[k])
        IN  Len(idens) > 1 =>
                \A n \in 1..Len(idens) :
                    (OrcidTag \o ChildContent(idens[n]))
                        \in Range(Fields(out[i].AuthorList[k][3]))

\* the element children of node named tag
ChildElements(node, tag) == SelectSeq(node.kids, LAMBDA n : n.kind = "elem" /\ n.name = tag)

\* the text an element holds in its single text child
OwnText(e) ==
    LET texts == SelectSeq(e.kids, LAMBDA n : n.kind = "text")
    IN  IF Len(texts) = 0 THEN <<>> ELSE Strip(texts[1].data)

\* the citation of a Reference: the text of its Citation child
CitationOf(ref) ==
    LET cits == ChildElements(ref, "Citation")
    IN  IF Len(cits) = 0 THEN <<>> ELSE OwnText(cits[1])

\* the identifiers of a Reference, each rendered "type:value"
IdPairs(ref) ==
    LET lists == ChildElements(ref, "ArticleIdList")
        aids  == IF Len(lists) = 0 THEN <<>> ELSE ChildElements(lists[1], "ArticleId")
    IN  [n \in 1..Len(aids) |-> aids[n].attrs[1].v \o <<":">> \o OwnText(aids[n])]

\* C11: referencelist returns one entry per Reference element, in document
\* order, each citation + "(" + the "type:value" identifiers of the reference
\* joined by "|" + ")"; "<citation>()" for a reference without identifiers.
C11_ReferenceEntries ==
    \A i \in Yielded :
        LET refs == getElementsByTagName(Articles[i], "Reference")
        IN  /\ Len(out[i].ReferenceList) = Len(refs)
            /\ \A n \in 1..Len(refs) :
                   /\ out[i].ReferenceList[n] =
                          CitationOf(refs[n]) \o <<"(">> \o Join(<<"|">>, IdPairs(refs[n]))
                          \o <<")">>
                   /\ Len(IdPairs(refs[n])) = 0 =>
                          out[i].ReferenceList[n] = CitationOf(refs[n]) \o <<"(", ")">>

\* an indented list of two references, the first with the identifier
\* pubmed:19668203 and the second without identifiers, has been rendered
C11_Witness ==
    \E i \in Yielded :
        /\ Len(getElementsByTagName(Articles[i], "ReferenceList")[1].kids) = 5
        /\ out[i].ReferenceList =
               <<<<"N","a","t"," ","M","e","t","h","o","d","s","."," ","2","0","0","9","(",
                   "p","u","b","m","e","d",":","1","9","6","6","8","2","0","3",")">>,
                 <<"B","(",")">>>>

\* the texts of the children of the author named in tags, in document order,
\* joined by a space
NameOf(author, tags) ==
    Join(<<" ">>,
         SelectSeq([n \in 1..Len(author.kids) |->
                        IF author.kids[n].name \in tags THEN OwnText(author.kids[n]) ELSE <<>>],
                   LAMBDA t : Len(t) > 0))

\* C12: authorlist returns one entry of exactly five fields per Author
\* element; an author whose identifier processing fails gets
\* [name1, name2, "", "", ""] with its name fields, and every other author of
\* the roster still gets its identifiers and affiliations.
C12_FailureHandling ==
    \A i \in Yielded :
        /\ Len(out[i].AuthorList) = Len(AuthorsOf(Articles[i]))
        /\ \A k \in 1..Len(AuthorsOf(Articles[i])) :
               LET author == AuthorsOf(Articles[i])[k]
                   entry  == out[i].AuthorList[k]
               IN  /\ Len(entry) = 5
                   /\ Fails(author) =>
                          entry = <<NameOf(author, {"LastName", "ForeName"}),
                                    NameOf(author, {"LastName", "Initials"}),
                                    <<>>, <<>>, <<>>>>
                   /\ ~Fails(author) =>
                          /\ entry[1] = NameOf(author, {"LastName", "ForeName"})
                          /\ entry[2] = NameOf(author, {"LastName", "Initials"})
                          /\ entry[4] = Join(<<"|">>, FirstOccurrences(RawAffiliations(author)))
                          /\ \A iden \in Range(OrcidIdentifiers(author)) :
                                 iden = OrcidIdentifiers(author)[1] =>
                                     (OrcidTag \o OwnText(iden)) \in Range(Fields(entry[3]))

\* a roster whose first author fails, despite its affiliation, and whose
\* second author is processed normally
C12_Witness ==
    \E i \in Yielded :
        /\ Len(out[i].AuthorList) = 2
        /\ Fails(AuthorsOf(Articles[i])[1])
        /\ AffDeptA \in AffiliationTexts(AuthorsOf(Articles[i])[1])
        /\ out[i].AuthorList[1] =
               <<<<"K","i","r","c","h","n","e","r"," ","J","u","l","i","a","n">>,
                 <<"K","i","r","c","h","n","e","r"," ","J">>, <<>>, <<>>, <<>>>>
        /\ out[i].AuthorList[2][3] = OrcidTag \o OrcidA
        /\ out[i].AuthorList[2][4] = <<"D","e","p","t"," ","B">>

\* the calls made with a null node
NullCalls == {n \in 1..Len(out) : out[n].node = None}

\* the node a path leads to from a node: of the elements of each tag in
\* turn, the first (index 0) or the last (index -1), None when a tag is not
\* found
RECURSIVE Resolve(_, _, _)
Resolve(node, path, index) ==
    LET found == getElementsByTagName(node, Head(path))
    IN  IF Len(path) = 0 THEN node
        ELSE IF Len(found) = 0 THEN None
        ELSE Resolve(found[IF index = 0 THEN 1 ELSE Len(found)], Tail(path), index)

\* C13 as claimed: given a null node, gotonode returns the not-found
\* sentinel for every path, childvalue, attrvalue and gettext return the empty
\* string, and none of them fails.
C13_NullNodeEmpty ==
    \A n \in NullCalls :
        /\ pc # "raised"
        /\ out[n].result = IF out[n].op = "gotonode" THEN None ELSE <<>>

\* C13 as amended: given a null node, gotonode searches from the document:
\* it returns the node the path leads to from the root of the document, and
\* the not-found sentinel only when the path leads nowhere from there;
\* childvalue, attrvalue and gettext return the empty string; none fails.
C13_NullNodeFromDocument ==
    \A n \in NullCalls :
        /\ pc # "raised"
        /\ out[n].result =
               IF out[n].op = "gotonode" THEN Resolve(dom, out[n].path, out[n].index)
               ELSE <<>>

\* gotonode has been called with a null node and a path that exists in the
\* document, and has returned the PMID element of the document
C13_Witness ==
    \E n \in NullCalls :
        /\ out[n].op = "gotonode"
        /\ out[n].path = <<"PMID">>
        /\ out[n].result.kind = "elem"
        /\ out[n].result.name = "PMID"

\* the affiliation set getaffs fills from one affiliation text, after the
\* ORCIDs and the emails have been cut out of it
AffiliationSet(t) == getaffs(getemail(getidens(t, <<>>).src, <<>>).src, <<>>).afs

\* C14: every entry of the affiliation set of an author is a non-empty
\* string, so the pipe-joined affiliation field has no leading, trailing or
\* doubled "|".
C14_NoEmptyAffiliation ==
    \A i \in Yielded : \A k \in 1..Len(AuthorsOf(Articles[i])) :
        LET author == AuthorsOf(Articles[i])[k]
            field  == out[i].AuthorList[k][4]
        IN  /\ \A t \in AffiliationTexts(author) :
                   \A x \in Range(AffiliationSet(t)) : Len(x) > 0
            /\ Len(field) > 0 => field[1] # "|" /\ field[Len(field)] # "|"
            /\ \A n \in 1..(Len(field) - 1) : ~(field[n] = "|" /\ field[n + 1] = "|")

====
